---------------------------- MODULE Spec2Model ----------------------------
(***************************************************************************)
(* Model of App.py: the text -> rule -> control point (PDC) -> test case   *)
(* pipeline of the Streamlit application and the session state it keeps.   *)
(*                                                                         *)
(* Strings are sequences of symbols.  A symbol is a whitespace character   *)
(* (" ", "\n"), a punctuation character (".", ";", ",", ":"), or a word    *)
(* that contains neither.  Python's regular expressions and str methods    *)
(* are modelled on these sequences.                                        *)
(***************************************************************************)
EXTENDS Integers, Sequences, FiniteSets, TLC

VARIABLES
    session,     \* st.session_state: the keys present and their values
    widgets,     \* the widget values the user has set on the page
    nlp_model,   \* what load_nlp_model() returns (cached resource)
    exception,   \* the uncaught exception that ended the last script run
    runs,        \* the number of script runs of the session so far
    call         \* the last function application / script run observed

vars == <<session, widgets, nlp_model, exception, runs, call>>

None == "None"

-----------------------------------------------------------------------------
(* Python str helpers                                                      *)

\* str.isspace / regex \s on one symbol
IsSpace(c) == c \in {" ", "\n", "\t"}

IsPunct(c) == c \in {".", ";", ",", ":"}

\* a word symbol (matches \w+ as a whole)
IsWord(c) == ~IsSpace(c) /\ ~IsPunct(c)

\* s[i:] (1-based, i may be Len(s)+1)
Drop(s, i) == SubSeq(s, i, Len(s))

RECURSIVE LStrip(_)
LStrip(s) ==
    IF s # <<>> /\ IsSpace(Head(s)) THEN LStrip(Tail(s)) ELSE s

RECURSIVE RStrip(_)
RStrip(s) ==
    IF s # <<>> /\ IsSpace(s[Len(s)]) THEN RStrip(SubSeq(s, 1, Len(s) - 1)) ELSE s

\* str.strip()
Strip(s) == LStrip(RStrip(s))

\* str.endswith('.')
EndsWithDot(s) == s # <<>> /\ s[Len(s)] = "."

\* re.sub(r"\s+", " ", s): every maximal whitespace run becomes one space
RECURSIVE SubSpaces(_)
SubSpaces(s) ==
    IF s = <<>> THEN <<>>
    ELSE IF IsSpace(Head(s)) THEN <<" ">> \o SubSpaces(LStrip(s))
    ELSE <<Head(s)>> \o SubSpaces(Tail(s))

\* a plausible slip: the period is appended without looking at the end
clean_rule_always_dot(rule_text) ==
    Strip(SubSpaces(rule_text)) \o <<".">>

\* a plausible slip: the result is not trimmed
clean_rule_no_strip(rule_text) ==
    LET t == SubSpaces(rule_text)
    IN  IF EndsWithDot(t) THEN t ELSE t \o <<".">>

clean_rule(rule_text) ==
    LET t == Strip(SubSpaces(rule_text))
    IN  IF ~EndsWithDot(t) THEN t \o <<".">> ELSE t

-----------------------------------------------------------------------------
(* Case folding and searching (re.IGNORECASE, re.search)                   *)

\* str.lower() / case-insensitive comparison of one symbol
LowerTable ==
    ("Description:" :> "description:") @@ ("Étapes:" :> "étapes:")
    @@ ("Résultat" :> "résultat") @@ ("Attendu:" :> "attendu:")
    @@ ("Si" :> "si") @@ ("Quand" :> "quand") @@ ("Le" :> "le")
    @@ ("Un" :> "un") @@ ("Une" :> "une") @@ ("Il" :> "il")
    @@ ("Tout" :> "tout") @@ ("Toute" :> "toute")
    @@ ("L'utilisateur" :> "l'utilisateur") @@ ("L'agent" :> "l'agent")
    @@ ("Vérifier" :> "vérifier") @@ ("Contrôler" :> "contrôler")
    @@ ("Vérification" :> "vérification") @@ ("Point" :> "point")
    @@ ("S'assurer" :> "s'assurer") @@ ("Doit" :> "doit")
    @@ ("Payer" :> "payer") @@ ("Envoyer" :> "envoyer")
    @@ ("PAYER" :> "payer")

Lower(c) == IF c \in DOMAIN LowerTable THEN LowerTable[c] ELSE c

\* the literal lit matches s at position i, ignoring case
MatchAt(lit, s, i) ==
    /\ i >= 1
    /\ i + Len(lit) - 1 <= Len(s)
    /\ \A k \in 1..Len(lit) : Lower(s[i + k - 1]) = Lower(lit[k])

SetMax(S) == CHOOSE m \in S : \A n \in S : n <= m

SetMin(S) == CHOOSE m \in S : \A n \in S : m <= n

\* length of the whitespace run of s that starts at position e
RECURSIVE WsRun(_, _)
WsRun(s, e) ==
    IF e <= Len(s) /\ IsSpace(s[e]) THEN 1 + WsRun(s, e + 1) ELSE 0

\* position of the first line break at or after p (Len(s) + 1 if none):
\* the regex '.' does not match a line break
RECURSIVE LineEnd(_, _)
LineEnd(s, p) ==
    IF p > Len(s) \/ s[p] = "\n" THEN p ELSE LineEnd(s, p + 1)

NoMatch == [ok |-> FALSE, group |-> <<>>]

Match(g) == [ok |-> TRUE, group |-> g]

\* re.search(label \s* tail): the first position where the label matches
\* and, for the longest whitespace run \s* can take (it gives back one
\* symbol at a time), the tail matches at the position after the run
Search(label, s, TailOk(_, _), Group(_, _)) ==
    LET Runs(i) == {n \in 0..WsRun(s, i + Len(label)) :
                        TailOk(s, i + Len(label) + n)}
        hits == {i \in 1..Len(s) : MatchAt(label, s, i) /\ Runs(i) # {}}
    IN  IF hits = {} THEN NoMatch
        ELSE LET i == SetMin(hits)
             IN  Match(Group(s, i + Len(label) + SetMax(Runs(i))))

\* (.+?)\n : one or more symbols of one line, then its line break
DescTailOk(s, p) == p <= Len(s) /\ s[p] # "\n" /\ LineEnd(s, p) <= Len(s)

RestOfLine(s, p) == SubSeq(s, p, LineEnd(s, p) - 1)

\* (.+) : one or more symbols, to the end of the line
ExpectedTailOk(s, p) == p <= Len(s) /\ s[p] # "\n"

IsDigit(c) == c \in {"0", "1", "2", "3", "4", "5", "6", "7", "8", "9"}

\* \d\..+?\n at position p: a digit, a period, one or more symbols, a
\* line break
StepLineOk(s, p) ==
    /\ p + 2 <= Len(s)
    /\ IsDigit(s[p]) /\ s[p + 1] = "." /\ s[p + 2] # "\n"
    /\ LineEnd(s, p + 2) <= Len(s)

\* the position after the step lines (?:\d\..+?\n)+ that start at p
RECURSIVE StepLinesEnd(_, _)
StepLinesEnd(s, p) ==
    IF StepLineOk(s, p) THEN StepLinesEnd(s, LineEnd(s, p + 2) + 1) ELSE p

StepLines(s, p) == SubSeq(s, p, StepLinesEnd(s, p) - 1)

\* re.search(r"Description:\s*(.+?)\n", result, re.IGNORECASE)
SearchDescription(result) ==
    Search(<<"Description:">>, result, DescTailOk, RestOfLine)

\* re.search(r"Étapes:\s*((?:\d\..+?\n)+)", result, re.IGNORECASE)
SearchSteps(result) ==
    Search(<<"Étapes:">>, result, StepLineOk, StepLines)

\* re.search(r"Résultat attendu:\s*(.+)", result, re.IGNORECASE)
SearchExpected(result) ==
    Search(<<"Résultat", " ", "attendu:">>, result, ExpectedTailOk, RestOfLine)

-----------------------------------------------------------------------------
(* Patterns of the form  (a1|a2|..) .*? (b1|b2|..) .*? (c1|..)             *)
(*                                                                         *)
(* A pattern is a sequence of stages; a stage is the sequence of its       *)
(* alternatives, in the order the source lists them, and whether a \b      *)
(* follows; an alternative is a sequence of sets of (lower-case) symbols.  *)
(* Between two stages stands a lazy .*? that does not cross a line break.  *)

Lit(words) == [k \in 1..Len(words) |-> {words[k]}]

Stage(alts) == [alts |-> alts, wb |-> FALSE]

StageB(alts) == [alts |-> alts, wb |-> TRUE]

AltMatch(alt, s, q) ==
    /\ q + Len(alt) - 1 <= Len(s)
    /\ \A k \in 1..Len(alt) : Lower(s[q + k - 1]) \in alt[k]

\* \b after a word: the next symbol, if any, does not start with a word
\* character
Boundary(s, e) == e > Len(s) \/ ~IsWord(s[e])

\* The end (exclusive) of the first match, in backtracking order, of stages
\* k.. of the pattern, where stage k is tried from position p on; 0 if there
\* is none.  Stage 1 is anchored at p; a later stage may move right over the
\* symbols of the line (the lazy gap before it), the nearest position first
\* and, at one position, the alternatives in their order.
RECURSIVE TryFrom(_, _, _, _)
TryFrom(stages, k, s, p) ==
    LET alts == stages[k].alts
        EndOf(q, a) == q + Len(alts[a])
        Ok(q, a) ==
            /\ AltMatch(alts[a], s, q)
            /\ stages[k].wb => Boundary(s, EndOf(q, a))
            /\ k < Len(stages) => TryFrom(stages, k + 1, s, EndOf(q, a)) # 0
        hits == {h \in (IF k = 1 THEN {p} ELSE p..LineEnd(s, p)) \X (1..Len(alts)) :
                    Ok(h[1], h[2])}
    IN  IF hits = {} THEN 0
        ELSE LET q == SetMin({h[1] : h \in hits})
                 a == SetMin({h[2] : h \in {g \in hits : g[1] = q}})
             IN  IF k = Len(stages) THEN EndOf(q, a)
                 ELSE TryFrom(stages, k + 1, s, EndOf(q, a))

\* re.finditer(pattern, text, re.IGNORECASE): the matched substrings, left
\* to right, non-overlapping
RECURSIVE FindIter(_, _, _)
FindIter(stages, s, i) ==
    IF i > Len(s) THEN <<>>
    ELSE LET e == TryFrom(stages, 1, s, i)
         IN  IF e # 0 THEN <<SubSeq(s, i, e - 1)>> \o FindIter(stages, s, e)
             ELSE FindIter(stages, s, i + 1)

\* the words L'[a-zA-Z]+ and Lorsqu'... can match as a whole
LWords == {"l'utilisateur", "l'agent", "l'environnement"}

LorsquWords == {"lorsqu'un", "lorsqu'il"}

Period == <<Lit(<<".">>)>>

\* the four rule patterns of extract_business_rules
RulePatterns ==
    << << Stage(<< Lit(<<"si">>), <<LorsquWords>>, Lit(<<"quand">>),
                   Lit(<<"dès", " ", "que">>), Lit(<<"en", " ", "cas", " ", "de">>) >>),
          Stage(<< Lit(<<"alors">>), Lit(<<"doit">>), Lit(<<"devra">>),
                   Lit(<<"est", " ", "tenu", " ", "de">>), Lit(<<"nécessite">>),
                   Lit(<<"implique">>), Lit(<<"entraîne">>), Lit(<<"peut">>) >>),
          Stage(Period) >>,
       << Stage(<< Lit(<<"tout", " ", "utilisateur">>), <<LWords>>,
                   Lit(<<"un", " ", "client">>), Lit(<<"le", " ", "système">>),
                   Lit(<<"une", " ", "demande">>) >>),
          Stage(<< Lit(<<"doit">>), Lit(<<"est", " ", "tenu", " ", "de">>),
                   Lit(<<"devra">>), Lit(<<"ne", " ", "peut", " ", "pas">>),
                   Lit(<<"ne", " ", "doit", " ", "pas">>),
                   Lit(<<"est", " ", "interdit", " ", "de">>) >>),
          Stage(Period) >>,
       << Stage(<< Lit(<<"le", " ", "non-respect">>),
                   Lit(<<"toute", " ", "infraction">>),
                   Lit(<<"une", " ", "violation">>) >>),
          Stage(<< Lit(<<"entraîne">>), Lit(<<"provoque">>),
                   Lit(<<"peut", " ", "entraîner">>), Lit(<<"résulte", " ", "en">>),
                   Lit(<<"sera", " ", "soumis", " ", "à">>) >>),
          Stage(Period) >>,
       << Stage(<< Lit(<<"l'utilisateur">>), Lit(<<"le", " ", "client">>),
                   Lit(<<"le", " ", "prestataire">>), Lit(<<"l'agent">>),
                   Lit(<<"le", " ", "système">>) >>),
          Stage(<< Lit(<<"est", " ", "autorisé", " ", "à">>), Lit(<<"peut">>),
                   Lit(<<"a", " ", "le", " ", "droit", " ", "de">>) >>),
          Stage(Period) >> >>

\* the two control-point patterns of extract_pdc_from_text
PdcPatterns ==
    << << StageB(<< Lit(<<"vérifier">>), Lit(<<"s'assurer">>),
                    Lit(<<"contrôler">>), Lit(<<"vérification">>),
                    Lit(<<"point", " ", "de", " ", "contrôle">>) >>),
          Stage(<< <<{".", ";"}>> >>) >>,
       << Stage(<< Lit(<<"le", " ", "système", " ", "doit">>),
                   Lit(<<"il", " ", "faut">>),
                   Lit(<<"il", " ", "est", " ", "nécessaire", " ", "de">>) >>),
          Stage(<< Lit(<<"vérifier">>), Lit(<<"contrôler">>),
                   Lit(<<"s'assurer">>) >>) >> >>

RECURSIVE Concat(_)
Concat(parts) == IF parts = <<>> THEN <<>> ELSE Head(parts) \o Concat(Tail(parts))

\* the elements of a sequence
Range(f) == {f[i] : i \in DOMAIN f}

\* len(x.split()): the number of maximal runs without whitespace
RECURSIVE WordCount(_)
WordCount(s) ==
    LET t == LStrip(s)
    IN  IF t = <<>> THEN 0
        ELSE LET RECURSIVE SkipWord(_)
                 SkipWord(u) == IF u # <<>> /\ ~IsSpace(Head(u))
                                THEN SkipWord(Tail(u)) ELSE u
             IN  1 + WordCount(SkipWord(t))

\* len(x): the number of characters
RECURSIVE CharLen(_)
CharLen(s) == IF s = <<>> THEN 0 ELSE Len(Head(s)) + CharLen(Tail(s))

-----------------------------------------------------------------------------
(* The external text-generation service                                    *)

\* one call of the service as the environment decides it: whether
\* setup_azure_openai() yields a client, whether the completion request
\* succeeds, and the text of the completion
ServiceEnv(contents) ==
    [client : BOOLEAN, ok : BOOLEAN, content : contents]

\* generate_with_azure_openai: the trimmed completion, or None on failure
generate_with_azure_openai(prompt, env) ==
    IF env.ok THEN [none |-> FALSE, text |-> Strip(env.content)]
    ELSE [none |-> TRUE, text |-> <<>>]

\* Python truth value of the result: neither None nor the empty string
Truthy(result) == ~result.none /\ result.text # <<>>

-----------------------------------------------------------------------------
(* extract_business_rules and extract_pdc_from_text                        *)

\* set.add on a set kept as the sequence of its members
SetAdd(coll, x) == IF x \in Range(coll) THEN coll ELSE Append(coll, x)

\* a plausible slip: a list that is appended to
ListAppend(coll, x) == Append(coll, x)

\* the collection type of rules and pdc_list during extraction
Add(coll, x) == SetAdd(coll, x)

RECURSIVE AddAll(_, _)
AddAll(coll, xs) ==
    IF xs = <<>> THEN coll ELSE AddAll(Add(coll, Head(xs)), Tail(xs))

\* every value of f(x) for the items x of a sequence, in order
RECURSIVE Map(_, _)
Map(f(_), xs) ==
    IF xs = <<>> THEN <<>> ELSE <<f(Head(xs))>> \o Map(f, Tail(xs))

RECURSIVE Filter(_, _)
Filter(keep(_), xs) ==
    IF xs = <<>> THEN <<>>
    ELSE (IF keep(Head(xs)) THEN <<Head(xs)>> ELSE <<>>) \o Filter(keep, Tail(xs))

\* the matches of every pattern, pattern after pattern
RECURSIVE AllMatches(_, _)
AllMatches(patterns, text) ==
    IF patterns = <<>> THEN <<>>
    ELSE FindIter(Head(patterns), text, 1) \o AllMatches(Tail(patterns), text)

\* the keywords of the sentence-level heuristic
Keywords ==
    { <<"si", " ">>, <<"alors">>, <<"doit">>, <<"est", " ", "tenu", " ", "de">>,
      <<"ne", " ", "peut", " ", "pas">>, <<"entraîne">>, <<"provoque">>,
      <<"peut", " ", "entraîner">>, <<"doit", " ", "être">>,
      <<"est", " ", "obligatoire">>, <<"a", " ", "le", " ", "droit", " ", "de">>,
      <<"est", " ", "autorisé", " ", "à">> }

\* any(keyword in sent.text.lower() for keyword in [...])
HasKeyword(sent) ==
    \E kw \in Keywords : \E i \in 1..Len(sent) : MatchAt(kw, sent, i)

MinSentenceWords == 5

MinPdcWords == 3

\* where the linguistic model may end a sentence: after a period
SentenceEnds(text) == {p \in 1..(Len(text) - 1) : text[p] = "."}

\* doc.sents for the sentence ends the linguistic model chose
RECURSIVE Sentences(_, _, _)
Sentences(text, cuts, from) ==
    IF from > Len(text) THEN <<>>
    ELSE LET later == {p \in cuts : p >= from}
         IN  IF later = {} THEN <<SubSeq(text, from, Len(text))>>
             ELSE <<SubSeq(text, from, SetMin(later))>>
                  \o Sentences(text, cuts, SetMin(later) + 1)

\* a plausible slip: every sentence is kept
QualifyingSentence_any(sent) == TRUE

QualifyingSentence(sent) ==
    HasKeyword(sent) /\ WordCount(sent) > MinSentenceWords

\* the rules collected in heuristic mode, in the order they are added
RuleCollection(text, nlp, cuts) ==
    LET byPattern == AddAll(<<>>, Map(clean_rule, AllMatches(RulePatterns, text)))
    IN  IF nlp
        THEN AddAll(byPattern,
                    Map(clean_rule,
                        Filter(QualifyingSentence, Sentences(text, cuts, 1))))
        ELSE byPattern

\* list.insert for a stable sort by descending length: x goes after every
\* item at least as long
RECURSIVE InsertDesc(_, _)
InsertDesc(sorted, x) ==
    IF sorted = <<>> THEN <<x>>
    ELSE IF CharLen(Head(sorted)) >= CharLen(x)
         THEN <<Head(sorted)>> \o InsertDesc(Tail(sorted), x)
         ELSE <<x>> \o sorted

\* a plausible slip: reverse=True forgotten
RECURSIVE InsertAsc(_, _)
InsertAsc(sorted, x) ==
    IF sorted = <<>> THEN <<x>>
    ELSE IF CharLen(Head(sorted)) <= CharLen(x)
         THEN <<Head(sorted)>> \o InsertAsc(Tail(sorted), x)
         ELSE <<x>> \o sorted

Insert(sorted, x) == InsertDesc(sorted, x)

RECURSIVE SortFrom(_, _)
SortFrom(sorted, xs) ==
    IF xs = <<>> THEN sorted ELSE SortFrom(Insert(sorted, Head(xs)), Tail(xs))

\* the orders in which a set can be iterated
RECURSIVE Orders(_)
Orders(coll) ==
    IF coll = <<>> THEN {<<>>}
    ELSE UNION { {<<coll[i]>> \o rest :
                    rest \in Orders(SubSeq(coll, 1, i - 1)
                                    \o SubSeq(coll, i + 1, Len(coll)))} :
                 i \in 1..Len(coll) }

\* sorted(collection, key=lambda x: len(x), reverse=True): the lists it can
\* return, over the iteration orders of the set
Sorted(coll) == {SortFrom(<<>>, o) : o \in Orders(coll)}

\* str.split('\n')
RECURSIVE SplitLines(_)
SplitLines(s) ==
    LET e == LineEnd(s, 1)
    IN  IF e > Len(s) THEN <<s>>
        ELSE <<SubSeq(s, 1, e - 1)>> \o SplitLines(Drop(s, e + 1))

NonBlank(line) == Strip(line) # <<>>

PromptLimit == 10000

\* the prompt: fixed instructions and the first PromptLimit characters
RulesPrompt(text) ==
    <<"Texte:">> \o SubSeq(text, 1, IF Len(text) < PromptLimit THEN Len(text)
                                     ELSE PromptLimit)

\* the lists extract_business_rules(text, nlp_model, use_ai) can return when
\* the linguistic model ends sentences at env.cuts and the service behaves
\* as env says
extract_business_rules(text, nlp, use_ai, env) ==
    IF ~use_ai THEN Sorted(RuleCollection(text, nlp, env.cuts))
    ELSE IF ~env.client THEN {<<>>}
    ELSE LET result == generate_with_azure_openai(RulesPrompt(text), env)
         IN  IF Truthy(result)
             THEN {Map(clean_rule, Filter(NonBlank, SplitLines(result.text)))}
             ELSE {<<>>}

\* pdc = match.group().strip(); a period is added if missing
PdcOf(match) ==
    LET pdc == Strip(match)
    IN  IF ~EndsWithDot(pdc) THEN pdc \o <<".">> ELSE pdc

LongEnough(match) == WordCount(Strip(match)) > MinPdcWords

\* the lists extract_pdc_from_text(text) can return
extract_pdc_from_text(text) ==
    Sorted(AddAll(<<>>, Map(PdcOf, Filter(LongEnough, AllMatches(PdcPatterns, text)))))

-----------------------------------------------------------------------------
(* generate_pdc_from_rule                                                  *)

\* str.capitalize on the words a rule's verbs can be
CapitalizeTable ==
    [w \in {"doit", "peut", "payer", "paie", "vérifier", "Vérifier"} |->
        CASE w = "doit" -> "Doit"
          [] w = "peut" -> "Peut"
          [] w = "payer" -> "Payer"
          [] w = "paie" -> "Paie"
          [] OTHER -> "Vérifier"]

Capitalize(word) ==
    IF word \in DOMAIN CapitalizeTable THEN CapitalizeTable[word] ELSE word

\* [token.text for token in doc if token.pos_ == "VERB"], where tags is the
\* set of positions the linguistic model tags as verbs
Verbs(rule, tags) ==
    LET Pick[i \in 0..Len(rule)] ==
            IF i = 0 THEN <<>>
            ELSE IF i \in tags THEN Append(Pick[i - 1], rule[i]) ELSE Pick[i - 1]
    IN  Pick[Len(rule)]

\* f"Vérifier que {rule}"
DefaultPdc(rule) == <<"Vérifier", " ", "que", " ">> \o rule

\* the prompt carries the rule between fixed instructions
PdcPrompt(rule) == <<"Règle:", " ">> \o rule

\* state is st.session_state; env.tags is the linguistic model's tagging of
\* the rule, env.client, env.ok and env.content the service's behaviour.
\* The result records the returned text, the st.error message shown (or
\* None) and whether the service was called.
generate_pdc_from_rule(rule, use_ai, state, env) ==
    IF ~use_ai \/ "nlp" \notin DOMAIN state THEN
        IF "nlp" \notin DOMAIN state
        THEN [pdc |-> DefaultPdc(rule), error |-> "Modèle NLP non chargé",
              called |-> FALSE]
        ELSE LET verbs == Verbs(rule, env.tags)
                 action == IF verbs # <<>> THEN verbs[1] ELSE "vérifier"
             IN  [pdc |-> <<Capitalize(action), " ", "que", " ">> \o rule,
                  error |-> None, called |-> FALSE]
    ELSE IF ~env.client
         THEN [pdc |-> DefaultPdc(rule), error |-> None, called |-> FALSE]
    ELSE LET result == generate_with_azure_openai(PdcPrompt(rule), env)
         IN  [pdc |-> IF Truthy(result) THEN result.text ELSE DefaultPdc(rule),
              error |-> None, called |-> TRUE]

-----------------------------------------------------------------------------
(* create_test_case                                                        *)

DigitSymbols == <<"0", "1", "2", "3", "4", "5", "6", "7", "8", "9">>

\* str(n) for n >= 0
RECURSIVE Decimal(_)
Decimal(n) ==
    IF n < 10 THEN <<DigitSymbols[n + 1]>>
    ELSE Decimal(n \div 10) \o <<DigitSymbols[(n % 10) + 1]>>

RECURSIVE ZeroPad(_, _)
ZeroPad(digits, width) ==
    IF Len(digits) >= width THEN digits ELSE ZeroPad(<<"0">> \o digits, width)

IdWidth == 3

\* a plausible slip: the number is not padded
FormatId_unpadded(index) == <<"CT-">> \o Decimal(index)

\* f"CT-{index:03d}"
FormatId(index) == <<"CT-">> \o ZeroPad(Decimal(index), IdWidth)

\* a plausible slip: the flag is ignored
TypeOf_always_manual(is_manual) == "Manuel"

\* "Manuel" if is_manual else "Auto-généré"
TypeOf(is_manual) == IF is_manual THEN "Manuel" ELSE "Auto-généré"

\* the three description templates
Templates(pdc) ==
    << <<"Le", " ", "système", " ", "doit", " ", "satisfaire", " ", ":", " ">> \o pdc,
       <<"Confirmer", " ", "que", " ">> \o pdc,
       <<"Tester", " ", "la", " ", "conformité", " ", "de", " ", ":", " ">> \o pdc >>

DefaultSteps(pdc) ==
    <<"1", ".", " ", "Préparer", " ", "l'environnement", "\n",
      "2", ".", " ", "Exécuter:", " ">> \o pdc
    \o <<"\n", "3", ".", " ", "Vérifier", " ", "le", " ", "résultat">>

DefaultExpected(pdc) ==
    pdc \o <<" ", "est", " ", "correctement", " ", "implémenté">>

TestCase(id, type, pdc, description, steps, expected) ==
    ("ID" :> id) @@ ("Type" :> type) @@ ("PDC" :> pdc)
    @@ ("Description" :> description) @@ ("Étapes" :> steps)
    @@ ("Résultat attendu" :> expected)

\* a plausible slip: the fallback record ignores the Type flag
FallbackCase_auto(pdc, index, is_manual) ==
    TestCase(FormatId(index), TypeOf(FALSE), pdc, pdc,
             DefaultSteps(pdc), DefaultExpected(pdc))

\* the record returned without a client, and after a failed or empty
\* completion ("Fallback si échec")
FallbackCase(pdc, index, is_manual) ==
    TestCase(FormatId(index), TypeOf(is_manual), pdc, pdc,
             DefaultSteps(pdc), DefaultExpected(pdc))

\* the record built from the parsed completion, field by field
ParsedCase(pdc, index, is_manual, result) ==
    LET desc == SearchDescription(result)
        steps == SearchSteps(result)
        expected == SearchExpected(result)
    IN  TestCase(FormatId(index), TypeOf(is_manual), pdc,
                 IF desc.ok THEN Strip(desc.group) ELSE pdc,
                 IF steps.ok THEN Strip(steps.group) ELSE DefaultSteps(pdc),
                 IF expected.ok THEN Strip(expected.group)
                 ELSE DefaultExpected(pdc))

\* env.choice is the template random.choice picks; env.client, env.ok and
\* env.content are the service's behaviour during this call.  The three
\* searches and the group accesses cannot raise on a str, so the except
\* branch has no behaviour of its own.
create_test_case(pdc, index, is_manual, use_ai, env) ==
    IF ~use_ai THEN
        TestCase(FormatId(index), TypeOf(is_manual), pdc,
                 IF ~is_manual THEN Templates(pdc)[env.choice] ELSE pdc,
                 DefaultSteps(pdc), DefaultExpected(pdc))
    ELSE IF ~env.client THEN FallbackCase(pdc, index, is_manual)
    ELSE LET result == generate_with_azure_openai(<<"PDC:">> \o pdc, env)
         IN  IF Truthy(result)
             THEN ParsedCase(pdc, index, is_manual, result.text)
             ELSE FallbackCase(pdc, index, is_manual)

-----------------------------------------------------------------------------
(* extract_text                                                            *)

Pdf == "application/pdf"

Docx == "application/vnd.openxmlformats-officedocument.wordprocessingml.document"

Txt == "text/plain"

\* an uploaded file: its MIME type, whether the format reader can parse it,
\* and the text the reader extracts
File(type, readable, text) == [type |-> type, readable |-> readable, text |-> text]

NoText == [none |-> TRUE, text |-> <<>>]

\* the extracted text, or None for an unsupported type, a parse failure or
\* blank text (the exception is caught and reported inside the function)
extract_text(uploaded_file) ==
    IF uploaded_file.type \notin {Pdf, Docx} THEN NoText
    ELSE IF ~uploaded_file.readable THEN NoText
    ELSE IF Strip(uploaded_file.text) # <<>>
         THEN [none |-> FALSE, text |-> uploaded_file.text]
         ELSE NoText

\* the message extract_text shows with st.error, or None: only a raised
\* exception is reported, a blank text is returned as None without a message
extract_text_error(uploaded_file) ==
    IF uploaded_file.type \notin {Pdf, Docx}
    THEN "Erreur d'extraction : Format non supporté"
    ELSE IF ~uploaded_file.readable THEN "Erreur d'extraction : ..."
    ELSE None

-----------------------------------------------------------------------------
(* compare_rules_pdc                                                       *)

\* the tokens TfidfVectorizer finds in one symbol: lower-cased runs of two
\* or more word characters
SymbolTokens ==
    ("l'utilisateur" :> <<"utilisateur">>) @@ ("l'agent" :> <<"agent">>)
    @@ ("l'environnement" :> <<"environnement">>)
    @@ ("s'assurer" :> <<"assurer">>) @@ ("non-respect" :> <<"non", "respect">>)
    @@ ("lorsqu'un" :> <<"lorsqu", "un">>) @@ ("lorsqu'il" :> <<"lorsqu", "il">>)

TokensOf(c) ==
    IF Lower(c) \in DOMAIN SymbolTokens THEN SymbolTokens[Lower(c)]
    ELSE IF IsWord(c) /\ Len(c) >= 2 THEN <<Lower(c)>>
    ELSE <<>>

RECURSIVE Tokenize(_)
Tokenize(doc) ==
    IF doc = <<>> THEN <<>> ELSE TokensOf(Head(doc)) \o Tokenize(Tail(doc))

Count(tok, toks) == Cardinality({i \in 1..Len(toks) : toks[i] = tok})

SameBag(a, b) ==
    /\ Len(a) = Len(b)
    /\ \A t \in Range(a) \cup Range(b) : Count(t, a) = Count(t, b)

\* similarity scores are in tenths
One == 10

\* scores two documents that share some but not all terms may get, among
\* them the default threshold and the tenth below it
PartialScores == {5, 6}

\* the cosine similarities the vectorizer can give two documents: 0 without
\* a common term, 1 for the same terms with the same counts
Scores(rule, pdc) ==
    LET a == Tokenize(rule)
        b == Tokenize(pdc)
    IN  IF Range(a) \cap Range(b) = {} THEN {0}
        ELSE IF SameBag(a, b) THEN {One}
        ELSE PartialScores

\* the rows of similarities one rule can get against the control points
RECURSIVE RowsOf(_, _)
RowsOf(rule, pdc_list) ==
    IF pdc_list = <<>> THEN {<<>>}
    ELSE {<<x>> \o row : x \in Scores(rule, Head(pdc_list)),
                         row \in RowsOf(rule, Tail(pdc_list))}

RECURSIVE Matrices(_, _)
Matrices(rules, pdc_list) ==
    IF rules = <<>> THEN {<<>>}
    ELSE {<<row>> \o m : row \in RowsOf(Head(rules), pdc_list),
                         m \in Matrices(Tail(rules), pdc_list)}

Raised == [raised |-> TRUE, similarity |-> <<>>]

\* a plausible slip: an empty list gives an empty matrix
compare_rules_pdc_lenient(rules, pdc_list) ==
    {[raised |-> FALSE, similarity |-> m] : m \in Matrices(rules, pdc_list)}

\* The outcomes of compare_rules_pdc(rules, pdc_list): fit_transform raises
\* ValueError on an empty vocabulary (no document, or no token in any),
\* cosine_similarity raises ValueError on a matrix without rows (no rule, or
\* no control point); otherwise a matrix of len(rules) rows and
\* len(pdc_list) columns is returned.
compare_rules_pdc(rules, pdc_list) ==
    IF Tokenize(Concat(rules \o pdc_list)) = <<>> THEN {Raised}
    ELSE IF rules = <<>> \/ pdc_list = <<>> THEN {Raised}
    ELSE {[raised |-> FALSE, similarity |-> m] : m \in Matrices(rules, pdc_list)}

-----------------------------------------------------------------------------
(* Bounds and input sets                                                   *)

MaxCleanLen == 5

CleanAlphabet == {" ", "\n", ".", "a"}

RECURSIVE StrsUpTo(_, _)
StrsUpTo(A, n) ==
    IF n = 0 THEN {<<>>}
    ELSE LET shorter == StrsUpTo(A, n - 1)
         IN  shorter \cup {Append(s, c) : s \in {t \in shorter : Len(t) = n - 1}, c \in A}

CleanInputs == StrsUpTo(CleanAlphabet, MaxCleanLen)

-----------------------------------------------------------------------------
(* The session before any interaction                                      *)

\* a file uploader that holds no file
NoFile == [type |-> None, readable |-> FALSE, text |-> <<>>]

\* the slider's value in the run that creates it: its default, in tenths
Threshold == 6

\* the widgets' default values
NoWidgets ==
    [uploaded_file |-> NoFile, use_ai_rules |-> FALSE, use_ai_pdc |-> FALSE,
     use_ai_tests |-> FALSE, has_pdc |-> "Oui", pdc_file |-> NoFile,
     threshold |-> Threshold]

EmptySession == [k \in {} |-> None]

Idle ==
    /\ session = EmptySession
    /\ widgets = NoWidgets
    /\ nlp_model = FALSE
    /\ exception = None
    /\ runs = 0

-----------------------------------------------------------------------------
(* clean_rule as a function under test                                     *)

InitClean ==
    /\ Idle
    /\ \E x \in CleanInputs : call = [op |-> "input", x |-> x]

CleanOnce ==
    /\ call.op = "input"
    /\ call' = [op |-> "clean_rule", x |-> call.x, y |-> clean_rule(call.x)]
    /\ UNCHANGED <<session, widgets, nlp_model, exception, runs>>

CleanTwice ==
    /\ call.op = "clean_rule"
    /\ call' = [op |-> "clean_rule2", x |-> call.x, y |-> call.y,
                yy |-> clean_rule(call.y)]
    /\ UNCHANGED <<session, widgets, nlp_model, exception, runs>>

NextClean == CleanOnce \/ CleanTwice

SpecClean == InitClean /\ [][NextClean]_vars

-----------------------------------------------------------------------------
(* create_test_case as a function under test                               *)

MaxRespLines == 3

\* lines a completion may be made of
RespLines ==
    { <<"Description:", " ", "d">>,
      <<"description:", "d", " ">>,
      <<"Étapes:">>,
      <<"1", ".", " ", "a">>,
      <<"Résultat", " ", "attendu:", " ", "r">>,
      <<"Résultat", " ", "attendu:">>,
      <<"bla">>,
      <<>> }

\* "\n".join(lines)
RECURSIVE JoinLines(_)
JoinLines(lines) ==
    IF lines = <<>> THEN <<>>
    ELSE IF Len(lines) = 1 THEN lines[1]
    ELSE lines[1] \o <<"\n">> \o JoinLines(Tail(lines))

\* the completions of up to MaxRespLines lines
Completions == {JoinLines(ls) : ls \in StrsUpTo(RespLines, MaxRespLines)}

CasePdcs ==
    { <<"Vérifier", " ", "que", " ", "x", ".">>,
      <<"Contrôler", " ", "y", ".">> }

Indexes == {1, 12, 1000}

\* the environments that differ in what create_test_case can observe
CaseEnvs(use_ai) ==
    IF ~use_ai
    THEN {[choice |-> c, client |-> FALSE, ok |-> FALSE, content |-> <<>>] :
            c \in 1..Len(Templates(<<>>))}
    ELSE {[choice |-> 1, client |-> FALSE, ok |-> FALSE, content |-> <<>>],
          [choice |-> 1, client |-> TRUE, ok |-> FALSE, content |-> <<>>]}
         \cup {[choice |-> 1, client |-> TRUE, ok |-> TRUE, content |-> c] :
                 c \in Completions}

InitCase ==
    /\ Idle
    /\ \E pdc \in CasePdcs, index \in Indexes, is_manual \in BOOLEAN,
          use_ai \in BOOLEAN :
          \E env \in CaseEnvs(use_ai) :
             call = [op |-> "input", pdc |-> pdc, index |-> index,
                     is_manual |-> is_manual, use_ai |-> use_ai, env |-> env]

CreateTestCase ==
    /\ call.op = "input"
    /\ call' = [call EXCEPT !.op = "create_test_case"] @@
               [result |-> create_test_case(call.pdc, call.index,
                              call.is_manual, call.use_ai, call.env)]
    /\ UNCHANGED <<session, widgets, nlp_model, exception, runs>>

NextCase == CreateTestCase

SpecCase == InitCase /\ [][NextCase]_vars

-----------------------------------------------------------------------------
(* Properties of create_test_case                                          *)

\* the service answered, and none of the three labels can be parsed
Malformed(env) ==
    /\ env.client /\ env.ok
    /\ ~SearchDescription(Strip(env.content)).ok
    /\ ~SearchSteps(Strip(env.content)).ok
    /\ ~SearchExpected(Strip(env.content)).ok

\* the records heuristic mode can return, over the random template choice
HeuristicCases(pdc, index, is_manual) ==
    {create_test_case(pdc, index, is_manual, FALSE, e) : e \in CaseEnvs(FALSE)}

CaseFields == {"ID", "Type", "PDC", "Description", "Étapes", "Résultat attendu"}

\* C1 as stated: in service-assisted mode, whenever the service response is
\* malformed, the returned record equals field by field a record heuristic
\* mode returns for the same control point, index and Type flag.
C1_FallbackIsHeuristic ==
    (call.op = "create_test_case" /\ call.use_ai /\ Malformed(call.env)) =>
        call.result \in HeuristicCases(call.pdc, call.index, call.is_manual)

\* C1 amended: on a malformed response the record equals the heuristic one
\* in ID, Type, PDC, Étapes and Résultat attendu, and its Description is the
\* control point itself; that is the heuristic Description (hence the whole
\* heuristic record) when the Type flag is manual, and differs from every
\* heuristic template when it is not.
C1_FallbackFields ==
    (call.op = "create_test_case" /\ call.use_ai /\ Malformed(call.env)) =>
        /\ DOMAIN call.result = CaseFields
        /\ \A h \in HeuristicCases(call.pdc, call.index, call.is_manual) :
              \A f \in CaseFields \ {"Description"} : call.result[f] = h[f]
        /\ call.result["Description"] = call.pdc
        /\ call.is_manual <=>
              call.result \in HeuristicCases(call.pdc, call.index, call.is_manual)

\* a non-empty completion that carries labels, none of them parseable (the
\* steps are not numbered, the description line is not ended), was answered
\* for an auto-generated control point
C1_Witness ==
    /\ call.op = "create_test_case" /\ call.use_ai /\ Malformed(call.env)
    /\ ~call.is_manual
    /\ call.env.content =
         JoinLines(<< <<"Étapes:">>, <<"bla">>, <<"Description:", " ", "d">> >>)
    /\ call.result["Description"] = call.pdc
    /\ call.result["Type"] = "Auto-généré"

-----------------------------------------------------------------------------
(* The extractors as functions under test                                  *)

MaxFragments == 2

\* a conditional rule (the first rule pattern)
FragConditional ==
    <<"Si", " ", "le", " ", "client", " ", "ne", " ", "paie", " ", "pas", ",",
      " ", "alors", " ", "le", " ", "compte", " ", "est", " ", "suspendu", ".">>

\* the same sentence, spaced differently
FragConditionalSpaced ==
    <<"Si", " ", "le", " ", "client", " ", "ne", " ", "paie", " ", "pas", ",",
      " ", " ", "alors", " ", "le", " ", "compte", " ", "est", " ", "suspendu", ".">>

\* a sentence the second and the fourth rule pattern match as a whole, the
\* first one in part, and both control-point patterns in part
FragObligation ==
    <<"Le", " ", "système", " ", "doit", " ", "vérifier", " ", "si", " ", "le",
      " ", "client", " ", "peut", " ", "payer", ".">>

FragPermission == <<"Le", " ", "client", " ", "peut", " ", "payer", ".">>

FragCheck ==
    <<"Vérifier", " ", "que", " ", "le", " ", "client", " ", "a", " ", "payé", ".">>

FragControl ==
    <<"Contrôler", " ", "le", " ", "solde", " ", "du", " ", "compte", ";">>

\* pieces of document text: rule sentences, verification statements, a
\* sentence nothing matches, and whitespace
Fragments ==
    { FragConditional, FragConditionalSpaced, FragObligation, FragPermission,
      FragCheck, FragControl, <<"Bonjour", ".">>, <<" ">>, <<"\n">> }

\* the texts made of up to MaxFragments fragments
Texts == {Concat(fs) : fs \in StrsUpTo(Fragments, MaxFragments)}

\* the texts sent to the service in this development: whitespace only, or
\* one fragment
ServiceTexts == {Concat(fs) : fs \in StrsUpTo(Fragments, 1)} \cup {<<" ", "\n">>}

\* lines a completion that lists rules may be made of
RuleLines ==
    { <<"Le", " ", "client", " ", "doit", " ", "payer", ".">>,
      <<" ", "Le", " ", " ", "client", " ", "doit", " ", "payer">>,
      <<"Si", " ", "le", " ", "client", " ", "paie", ",", " ", "le", " ", "compte",
        " ", "doit", " ", "rester", " ", "actif", ".">>,
      <<"Aucune", " ", "règle">>,
      <<>> }

RuleCompletions == {JoinLines(ls) : ls \in StrsUpTo(RuleLines, MaxRespLines)}

\* what the environment decides during one extract_business_rules call
ExtractEnvs(text, nlp, use_ai) ==
    IF ~use_ai
    THEN {[cuts |-> c, client |-> FALSE, ok |-> FALSE, content |-> <<>>] :
            c \in IF nlp THEN SUBSET SentenceEnds(text) ELSE {{}}}
    ELSE {[cuts |-> {}, client |-> FALSE, ok |-> FALSE, content |-> <<>>],
          [cuts |-> {}, client |-> TRUE, ok |-> FALSE, content |-> <<>>]}
         \cup {[cuts |-> {}, client |-> TRUE, ok |-> TRUE, content |-> c] :
                 c \in RuleCompletions}

InitExtract ==
    /\ Idle
    /\ \E use_ai \in BOOLEAN, nlp \in BOOLEAN :
         \E text \in (IF use_ai THEN ServiceTexts ELSE Texts) :
            call = [op |-> "input", text |-> text, nlp |-> nlp, use_ai |-> use_ai]

ExtractBusinessRules ==
    /\ call.op = "input"
    /\ \E env \in ExtractEnvs(call.text, call.nlp, call.use_ai) :
         \E rules \in extract_business_rules(call.text, call.nlp, call.use_ai, env) :
            call' = [op |-> "extract_business_rules", text |-> call.text,
                     nlp |-> call.nlp, use_ai |-> call.use_ai, env |-> env,
                     result |-> rules]
    /\ UNCHANGED <<session, widgets, nlp_model, exception, runs>>

ExtractPdcFromText ==
    /\ call.op = "input"
    /\ ~call.use_ai /\ ~call.nlp
    /\ \E pdc_list \in extract_pdc_from_text(call.text) :
         call' = [op |-> "extract_pdc_from_text", text |-> call.text,
                  result |-> pdc_list]
    /\ UNCHANGED <<session, widgets, nlp_model, exception, runs>>

NextExtract == ExtractBusinessRules \/ ExtractPdcFromText

SpecExtract == InitExtract /\ [][NextExtract]_vars

-----------------------------------------------------------------------------
(* Properties of the extractors                                            *)

NoDuplicates(list) ==
    \A i, j \in 1..Len(list) : list[i] = list[j] => i = j

LengthDescending(list) ==
    \A i \in 1..(Len(list) - 1) : CharLen(list[i]) >= CharLen(list[i + 1])

Blank(text) == Strip(text) = <<>>

Extracted == call.op \in {"extract_business_rules", "extract_pdc_from_text"}

Heuristic == call.op = "extract_pdc_from_text" \/ ~call.use_ai

\* C5 as stated: the list returned by extract_business_rules, in heuristic
\* mode and in service mode, and the list returned by extract_pdc_from_text
\* contain no two equal entries.
C5_NoDuplicatesAnyMode == Extracted => NoDuplicates(call.result)

\* C5 amended: the list returned by extract_business_rules in heuristic
\* mode and the list returned by extract_pdc_from_text contain no two equal
\* entries (service mode returns the cleaned lines of the response as they
\* come, repeats included).
C5_NoDuplicatesHeuristic ==
    (Extracted /\ Heuristic) => NoDuplicates(call.result)

\* a sentence that occurs twice in the text, each time matched by two
\* patterns and by the sentence heuristic, is returned once
C5_Witness ==
    /\ call.op = "extract_business_rules" /\ ~call.use_ai /\ call.nlp
    /\ call.text = FragObligation \o FragObligation
    /\ call.env.cuts = {Len(FragObligation)}
    /\ Len(call.result) = 2
    /\ call.result[1] = FragObligation

\* C6 as stated: every list returned by rule extraction, in either mode, and
\* by control-point extraction is sorted by non-increasing character length.
C6_SortedAnyMode == Extracted => LengthDescending(call.result)

\* C6 amended: every list returned by rule extraction in heuristic mode and
\* by control-point extraction is sorted by non-increasing character length
\* (service mode keeps the order of the response's lines).
C6_SortedHeuristic ==
    (Extracted /\ Heuristic) => LengthDescending(call.result)

\* rules of three different lengths were extracted, the shortest of them
\* found first in the text
C6_Witness ==
    /\ call.op = "extract_business_rules" /\ ~call.use_ai
    /\ call.text = FragPermission \o FragObligation
    /\ Len(call.result) = 3
    /\ call.result[3] = FragPermission
    /\ CharLen(call.result[1]) > CharLen(call.result[2])
    /\ CharLen(call.result[2]) > CharLen(call.result[3])

\* C7 as stated: for an empty or whitespace-only text extract_business_rules
\* returns an empty list in heuristic mode and also in service mode,
\* whatever the service returns.
C7_BlankGivesNothing ==
    (call.op = "extract_business_rules" /\ Blank(call.text)) =>
        call.result = <<>>

\* C7 amended: for an empty or whitespace-only text extract_business_rules
\* returns an empty list in heuristic mode; in service mode the text is sent
\* all the same and the list is empty exactly when no client is available,
\* the call fails or the response is empty; otherwise it holds the cleaned
\* non-blank lines of the response.
C7_BlankHeuristicOrNoAnswer ==
    (call.op = "extract_business_rules" /\ Blank(call.text)) =>
        /\ ~call.use_ai => call.result = <<>>
        /\ call.use_ai =>
             (call.result = <<>>
                <=> ~(call.env.client /\ call.env.ok /\ ~Blank(call.env.content)))

\* a whitespace-only text went to the service, which answered one line
C7_Witness ==
    /\ call.op = "extract_business_rules" /\ call.use_ai
    /\ call.text = <<" ", "\n">>
    /\ call.env.content = <<"Aucune", " ", "règle">>
    /\ call.result = << <<"Aucune", " ", "règle", ".">> >>

-----------------------------------------------------------------------------
(* Properties of clean_rule                                                *)

\* no whitespace other than isolated single spaces
SingleSpaced(s) ==
    /\ \A i \in 1..Len(s) : IsSpace(s[i]) => s[i] = " "
    /\ \A i \in 1..(Len(s) - 1) : ~(IsSpace(s[i]) /\ IsSpace(s[i + 1]))

Trimmed(s) == s = <<>> \/ (~IsSpace(s[1]) /\ ~IsSpace(s[Len(s)]))

EndsWithTwoDots(s) == Len(s) >= 2 /\ s[Len(s)] = "." /\ s[Len(s) - 1] = "."

\* C3: clean_rule is idempotent: for every non-empty input x,
\* clean_rule(clean_rule(x)) = clean_rule(x).
C3_CleanIdempotent ==
    (call.op = "clean_rule2" /\ call.x # <<>>) => call.yy = call.y

\* a non-empty input that the first pass really changes (whitespace run
\* collapsed, ends trimmed, period added) has been cleaned twice
C3_Witness ==
    /\ call.op = "clean_rule2"
    /\ call.x = <<" ", "a", " ", "\n", "a">>
    /\ call.y = <<"a", " ", "a", ".">>
    /\ call.yy = call.y

\* C4 as stated: for every input the result has no whitespace run longer
\* than one space, no leading or trailing whitespace, and ends with exactly
\* one period (the last character is '.', the one before it is not).
C4_ExactlyOnePeriod ==
    call.op = "clean_rule" =>
        /\ SingleSpaced(call.y)
        /\ Trimmed(call.y)
        /\ EndsWithDot(call.y)
        /\ ~EndsWithTwoDots(call.y)

\* C4 amended: the result has no whitespace run longer than one space, no
\* leading or trailing whitespace, and ends with a period; the period is
\* only added when missing, so the result ends with two periods exactly when
\* the input, trailing whitespace removed, already ended with two periods.
C4_CleanShape ==
    call.op = "clean_rule" =>
        /\ SingleSpaced(call.y)
        /\ Trimmed(call.y)
        /\ EndsWithDot(call.y)
        /\ EndsWithTwoDots(call.y) <=> EndsWithTwoDots(RStrip(call.x))

\* an input with surrounding whitespace that already ends with two periods
\* has been cleaned: both periods are kept
C4_Witness ==
    /\ call.op = "clean_rule"
    /\ call.x = <<" ", "a", ".", ".", "\n">>
    /\ call.y = <<"a", ".", ".">>

-----------------------------------------------------------------------------
(* The application: every interaction reruns the script from top to bottom *)
(* against the session state.  The analysis and word-cloud tabs only write *)
(* text_clean and freq, which nothing modelled here reads.                 *)

\* the documents uploaded in the extraction tab (PDF or DOCX): one with a
\* rule, one without text
RequirementFiles ==
    { File(Docx, TRUE, FragPermission),
      File(Pdf, TRUE, <<" ", "\n">>) }

\* the documents uploaded as existing control points (PDF, DOCX or TXT):
\* one with a control point, one without any, and a text file
PdcFiles ==
    { File(Pdf, TRUE, FragCheck),
      File(Pdf, TRUE, <<"Bonjour", ".">>),
      File(Txt, TRUE, FragCheck) }

\* the completions the service gives when asked for rules
AppRuleCompletions ==
    { JoinLines(<< <<"Le", " ", "client", " ", "doit", " ", "payer", ".">>,
                   <<>>,
                   <<" ", "Le", " ", " ", "client", " ", "doit", " ", "payer">> >>),
      <<"Aucune", " ", "règle">>,
      <<" ", "\n">> }

\* the completions the service gives when asked for a control point
AppPdcCompletions == { <<"Contrôler", " ", "le", " ", "paiement", ".", "\n">> }

\* the completions the service gives when asked for a test case
AppCaseCompletions ==
    { <<" ">>,
      <<"bla">>,
      JoinLines(<< <<"Description:", " ", "d">>, <<"Étapes:">>,
                   <<"1", ".", " ", "a">>,
                   <<"Résultat", " ", "attendu:", " ", "r">> >>) }

\* the service's behaviours: no client, a failed request, or a completion
ServiceEnvs(contents) ==
    {e \in ServiceEnv(contents \cup {<<>>}) :
        (e.ok => e.client /\ e.content \in contents) /\ (~e.ok => e.content = <<>>)}

RuleEnvs(text, nlp, use_ai) ==
    IF ~use_ai
    THEN {[cuts |-> c, client |-> FALSE, ok |-> FALSE, content |-> <<>>] :
            c \in IF nlp THEN SUBSET SentenceEnds(text) ELSE {{}}}
    ELSE {[cuts |-> {}] @@ e : e \in ServiceEnvs(AppRuleCompletions)}

\* words the linguistic model may tag as verbs
VerbLexicon == {"doit", "peut", "payer", "paie", "vérifier"}

\* the taggings considered: no verb, or every word of the lexicon
Taggings(rule, nlp) ==
    IF nlp THEN {{}, {i \in 1..Len(rule) : rule[i] \in VerbLexicon}} ELSE {{}}

PdcEnvs(rule, use_ai, nlp) ==
    IF ~use_ai
    THEN {[tags |-> t, client |-> FALSE, ok |-> FALSE, content |-> <<>>] :
            t \in Taggings(rule, nlp)}
    ELSE {[tags |-> {}] @@ e : e \in ServiceEnvs(AppPdcCompletions)}

TestEnvs(use_ai, is_manual) ==
    IF ~use_ai
    THEN {[choice |-> c, client |-> FALSE, ok |-> FALSE, content |-> <<>>] :
            c \in IF is_manual THEN {1} ELSE 1..Len(Templates(<<>>))}
    ELSE {[choice |-> 1] @@ e : e \in ServiceEnvs(AppCaseCompletions)}

\* st.session_state.k = v
Put(state, k, v) ==
    [x \in DOMAIN state \cup {k} |-> IF x = k THEN v ELSE state[x]]

\* has_pdc.startswith("Oui")
Oui(w) == w.has_pdc = "Oui"

\* tab1, "Extraire le texte"
Tab1(state, w, click) ==
    IF w.uploaded_file # NoFile /\ click = "Extraire le texte"
    THEN LET extracted_text == extract_text(w.uploaded_file)
         IN  IF Truthy(extracted_text)
             THEN Put(state, "text", extracted_text.text)
             ELSE state
    ELSE state

NoExtract == [called |-> FALSE, rules |-> <<>>]

\* tab4, "Extraire les règles": the session states it can leave, each with
\* the list extract_business_rules returned
Tab4(state, w, click, nlp) ==
    IF /\ "text" \in DOMAIN state
       /\ nlp \/ w.use_ai_rules
       /\ click = "Extraire les règles"
    THEN {[session |-> IF rules # <<>> THEN Put(state, "rules", rules)
                       ELSE state,
           extracted |-> [called |-> TRUE, rules |-> rules]] :
            rules \in UNION {extract_business_rules(state.text, nlp,
                                                    w.use_ai_rules, env) :
                               env \in RuleEnvs(state.text, nlp, w.use_ai_rules)}}
    ELSE {[session |-> state, extracted |-> NoExtract]}

\* tab5, section 1: the uploaded control-point document is read again on
\* every run; extract_pdc_from_text(None) raises TypeError in re.finditer
LoadPdc(state, w) ==
    IF Oui(w) /\ w.pdc_file # NoFile
    THEN LET pdc_text == extract_text(w.pdc_file)
         IN  IF pdc_text.none
             THEN {[session |-> state, exception |-> "TypeError"]}
             ELSE {[session |-> Put(state, "pdc_list", pdc_list),
                    exception |-> None] :
                     pdc_list \in extract_pdc_from_text(pdc_text.text)}
    ELSE {[session |-> state, exception |-> None]}

\* similarity[i].max()
RowMax(row) == SetMax(Range(row))

\* the rules whose best similarity is below the threshold, in order
Unmatched(rules, similarity, threshold) ==
    LET Pick[i \in 0..Len(rules)] ==
            IF i = 0 THEN <<>>
            ELSE IF RowMax(similarity[i]) < threshold
                 THEN Append(Pick[i - 1], rules[i])
                 ELSE Pick[i - 1]
    IN  Pick[Len(rules)]

\* one generate_pdc_from_rule call per rule, in order
RECURSIVE Generations(_, _, _, _)
Generations(rules, use_ai, state, nlp) ==
    IF rules = <<>> THEN {<<>>}
    ELSE {<<[rule |-> Head(rules), use_ai |-> use_ai, env |-> env,
             result |-> generate_pdc_from_rule(Head(rules), use_ai, state, env)]>>
          \o rest :
            env \in PdcEnvs(Head(rules), use_ai, nlp),
            rest \in Generations(Tail(rules), use_ai, state, nlp)}

PdcTexts(generated) == [i \in 1..Len(generated) |-> generated[i].result.pdc]

NoCompare ==
    [called |-> FALSE, rules |-> <<>>, pdc_list |-> <<>>, raised |-> FALSE,
     similarity |-> <<>>]

Compared(rules, pdc_list, outcome) ==
    [called |-> TRUE, rules |-> rules, pdc_list |-> pdc_list,
     raised |-> outcome.raised, similarity |-> outcome.similarity]

\* tab5, section 2, "Générer/Compléter les PDC"
GeneratePdc(state, w, click, nlp) ==
    IF (~Oui(w) \/ w.pdc_file # NoFile) /\ click = "Générer/Compléter les PDC"
    THEN LET s0 == IF "pdc_list" \notin DOMAIN state
                   THEN Put(state, "pdc_list", <<>>) ELSE state
         IN  IF Oui(w) /\ w.pdc_file # NoFile
             THEN UNION {
                    IF c.raised
                    THEN {[session |-> s0, exception |-> "ValueError",
                           compare |-> Compared(s0.rules, s0.pdc_list, c),
                           generated |-> <<>>]}
                    ELSE {[session |-> Put(s0, "pdc_list",
                                           s0.pdc_list \o PdcTexts(g)),
                           exception |-> None,
                           compare |-> Compared(s0.rules, s0.pdc_list, c),
                           generated |-> g] :
                            g \in Generations(Unmatched(s0.rules, c.similarity,
                                                        w.threshold),
                                              w.use_ai_pdc, s0, nlp)} :
                    c \in compare_rules_pdc(s0.rules, s0.pdc_list)}
             ELSE {[session |-> Put(s0, "pdc_list", PdcTexts(g)),
                    exception |-> None, compare |-> NoCompare,
                    generated |-> g] :
                     g \in Generations(s0.rules, w.use_ai_pdc, s0, nlp)}
    ELSE {[session |-> state, exception |-> None, compare |-> NoCompare,
           generated |-> <<>>]}

\* one create_test_case call per control point from position i on
RECURSIVE Cases(_, _, _, _)
Cases(pdc_list, i, w, use_ai) ==
    IF i > Len(pdc_list) THEN {<<>>}
    ELSE LET is_manual == Oui(w) /\ i <= Len(pdc_list)
         IN  {<<[env |-> env,
                 result |-> create_test_case(pdc_list[i], i, is_manual,
                                             use_ai, env)]>> \o rest :
                env \in TestEnvs(use_ai, is_manual),
                rest \in Cases(pdc_list, i + 1, w, use_ai)}

\* a plausible slip: the list is not reset before the loop
GenerateTests_append(state, w, click) ==
    IF /\ "pdc_list" \in DOMAIN state
       /\ state.pdc_list # <<>>
       /\ click = "Générer les Cas de Test"
    THEN {[session |-> Put(state, "test_cases",
                           (IF "test_cases" \in DOMAIN state
                            THEN state.test_cases ELSE <<>>)
                           \o [k \in 1..Len(c) |-> c[k].result]),
           cases |-> [k \in 1..Len(c) |-> c[k].env]] :
            c \in Cases(state.pdc_list, 1, w, w.use_ai_tests)}
    ELSE {[session |-> state, cases |-> <<>>]}

\* tab5, section 4, "Générer les Cas de Test"
GenerateTests(state, w, click) ==
    IF /\ "pdc_list" \in DOMAIN state
       /\ state.pdc_list # <<>>
       /\ click = "Générer les Cas de Test"
    THEN {[session |-> Put(state, "test_cases",
                           [k \in 1..Len(c) |-> c[k].result]),
           cases |-> [k \in 1..Len(c) |-> c[k].env]] :
            c \in Cases(state.pdc_list, 1, w, w.use_ai_tests)}
    ELSE {[session |-> state, cases |-> <<>>]}

\* tab5: a run ends at the first uncaught exception
Tab5(state, w, click, nlp) ==
    IF "rules" \notin DOMAIN state
    THEN {[session |-> state, exception |-> None, compare |-> NoCompare,
           generated |-> <<>>, cases |-> <<>>]}
    ELSE UNION {
           IF l.exception # None
           THEN {[session |-> l.session, exception |-> l.exception,
                  compare |-> NoCompare, generated |-> <<>>, cases |-> <<>>]}
           ELSE UNION {
                  IF g.exception # None
                  THEN {g @@ [cases |-> <<>>]}
                  ELSE {[session |-> t.session, exception |-> None,
                         compare |-> g.compare, generated |-> g.generated,
                         cases |-> t.cases] :
                          t \in GenerateTests(g.session, w, click)} :
                  g \in GeneratePdc(l.session, w, click, nlp)} :
           l \in LoadPdc(state, w)}

\* one run of the script with widget values w, click being the button whose
\* press triggered the run (None when another widget did)
ScriptRun(state, w, click, nlp) ==
    UNION {{o @@ [extracted |-> t4.extracted] :
              o \in Tab5(t4.session, w, click, nlp)} :
             t4 \in Tab4(Tab1(state, w, click), w, click, nlp)}

\* the script runs of one session considered, the first page load included
MaxRuns == 10

\* the threshold slider is created at line 569, after the comparison of a
\* "Générer/Compléter les PDC" run
SliderRendered(compare) == compare.called /\ ~compare.raised

\* A widget that a run does not render loses its value.  call.chosen keeps
\* the last value the user gave the slider (its default before that).
Rerun(w, click) ==
    /\ runs < MaxRuns
    /\ runs' = runs + 1
    /\ \E o \in ScriptRun(session, w, click, nlp_model) :
         /\ session' = o.session
         /\ exception' = o.exception
         /\ widgets' = IF SliderRendered(o.compare) THEN w
                       ELSE [w EXCEPT !.threshold = Threshold]
         /\ call' = [op |-> "run", click |-> click,
                     extracted |-> o.extracted, compare |-> o.compare,
                     generated |-> o.generated, cases |-> o.cases,
                     chosen |-> IF w.threshold # widgets.threshold
                                THEN w.threshold ELSE call.chosen]
    /\ UNCHANGED nlp_model

Init ==
    /\ session = EmptySession
    /\ widgets = NoWidgets
    /\ nlp_model \in BOOLEAN
    /\ exception = None
    /\ runs = 1
    /\ call = [op |-> "run", click |-> None, extracted |-> NoExtract,
               compare |-> NoCompare, generated |-> <<>>, cases |-> <<>>,
               chosen |-> Threshold]

\* the file uploader of tab1 gets a file, or is cleared
UploadFile ==
    \E f \in RequirementFiles \cup {NoFile} :
        /\ f # widgets.uploaded_file
        /\ Rerun([widgets EXCEPT !.uploaded_file = f], None)

\* the button exists only while a file is uploaded
ClickExtractText ==
    /\ widgets.uploaded_file # NoFile
    /\ Rerun(widgets, "Extraire le texte")

ToggleUseAiRules ==
    Rerun([widgets EXCEPT !.use_ai_rules = ~@], None)

\* the button exists only with a text and a way to process it
ClickExtractRules ==
    /\ "text" \in DOMAIN session
    /\ nlp_model \/ widgets.use_ai_rules
    /\ Rerun(widgets, "Extraire les règles")

ToggleUseAiPdc ==
    Rerun([widgets EXCEPT !.use_ai_pdc = ~@], None)

ToggleUseAiTests ==
    Rerun([widgets EXCEPT !.use_ai_tests = ~@], None)

\* the radio exists once rules are stored; the control-point uploader exists
\* only under "Oui" and loses its file when it is not rendered
SelectHasPdc ==
    /\ "rules" \in DOMAIN session
    /\ \E v \in {"Oui", "Non"} \ {widgets.has_pdc} :
         Rerun([widgets EXCEPT !.has_pdc = v, !.pdc_file = NoFile], None)

UploadPdcFile ==
    /\ "rules" \in DOMAIN session
    /\ Oui(widgets)
    /\ \E f \in PdcFiles \cup {NoFile} :
         /\ f # widgets.pdc_file
         /\ Rerun([widgets EXCEPT !.pdc_file = f], None)

\* the button exists if the last run reached section 2 with "Non" chosen or
\* a control-point file uploaded
ClickGeneratePdc ==
    /\ "rules" \in DOMAIN session
    /\ ~Oui(widgets) \/ widgets.pdc_file # NoFile
    /\ exception # "TypeError"
    /\ Rerun(widgets, "Générer/Compléter les PDC")

\* the button exists if the last run reached section 4 with control points
ClickGenerateTests ==
    /\ exception = None
    /\ "pdc_list" \in DOMAIN session
    /\ session.pdc_list # <<>>
    /\ Rerun(widgets, "Générer les Cas de Test")

\* values the user gives the slider, in tenths of its range 0.1 .. 1.0
ThresholdChoices == {3, 10}

\* the slider exists on the page the last run left if that run created it
MoveThreshold ==
    /\ SliderRendered(call.compare)
    /\ \E v \in ThresholdChoices \ {widgets.threshold} :
         Rerun([widgets EXCEPT !.threshold = v], None)

Next ==
    \/ UploadFile
    \/ ClickExtractText
    \/ ToggleUseAiRules
    \/ ClickExtractRules
    \/ ToggleUseAiPdc
    \/ ToggleUseAiTests
    \/ SelectHasPdc
    \/ UploadPdcFile
    \/ ClickGeneratePdc
    \/ MoveThreshold
    \/ ClickGenerateTests

Spec == Init /\ [][Next]_vars

-----------------------------------------------------------------------------
(* Properties of the application                                           *)

\* the number a sequence of digit symbols denotes
RECURSIVE NumberOf(_)
NumberOf(digits) ==
    IF digits = <<>> THEN 0
    ELSE 10 * NumberOf(SubSeq(digits, 1, Len(digits) - 1))
         + (CHOOSE v \in 0..9 : DigitSymbols[v + 1] = digits[Len(digits)])

\* id is "CT-" followed by k written with IdWidth digits
IsPaddedId(id, k) ==
    /\ Len(id) = 1 + IdWidth
    /\ id[1] = "CT-"
    /\ \A j \in 2..Len(id) : id[j] \in Range(DigitSymbols)
    /\ NumberOf(Tail(id)) = k

GeneratedTests == call.op = "run" /\ call.click = "Générer les Cas de Test"

GeneratedPdc == call.op = "run" /\ call.click = "Générer/Compléter les PDC"

\* C2: after a run of "Générer les Cas de Test" over a control-point list of
\* length N the session holds N test cases, the k-th one built from the
\* k-th control point and carrying the ID "CT-" followed by k zero-padded
\* to 3 digits, whatever the mode and whatever the service did for each
\* case; earlier runs leave no trace in the numbering.
C2_IdsFollowPositions ==
    GeneratedTests =>
        /\ exception = None
        /\ "test_cases" \in DOMAIN session
        /\ Len(session.test_cases) = Len(session.pdc_list)
        /\ Len(call.cases) = Len(session.pdc_list)
        /\ \A k \in 1..Len(session.pdc_list) :
              /\ session.test_cases[k]["PDC"] = session.pdc_list[k]
              /\ IsPaddedId(session.test_cases[k]["ID"], k)

\* a service-assisted run over three control points in which the service
\* was unavailable for one case and answered a parseable completion for
\* another
C2_Witness ==
    /\ GeneratedTests
    /\ widgets.use_ai_tests
    /\ Len(session.test_cases) = 3
    /\ session.test_cases[3]["ID"] = <<"CT-", "0", "0", "3">>
    /\ \E i, j \in 1..3 :
          /\ ~call.cases[i].client
          /\ call.cases[j].ok
          /\ session.test_cases[j]["Description"] = <<"d">>

\* rule and control-point lists the matcher is applied to
CompareLists ==
    { <<>>, <<FragPermission>>, <<FragCheck, FragPermission>>, << <<"a", ".">> >> }

\* the uploaded control-point document has text but no control point
NoPdcInFile(w) ==
    /\ Oui(w)
    /\ w.pdc_file # NoFile
    /\ ~extract_text(w.pdc_file).none
    /\ extract_pdc_from_text(extract_text(w.pdc_file).text) = {<<>>}

\* C8: compare_rules_pdc raises whenever the rule list or the control-point
\* list is empty and returns a matrix only when both are non-empty; a
\* "Générer/Compléter les PDC" run with an uploaded document that yields no
\* control point calls it with pdc_list = [] and ends in that exception.
C8_EmptyListRaises ==
    /\ \A rules \in CompareLists, pdc_list \in CompareLists :
          \A o \in compare_rules_pdc(rules, pdc_list) :
             /\ rules = <<>> \/ pdc_list = <<>> => o.raised
             /\ ~o.raised => /\ rules # <<>> /\ pdc_list # <<>>
                             /\ Len(o.similarity) = Len(rules)
    /\ call.op = "run" /\ call.compare.called =>
          /\ call.compare.rules = <<>> \/ call.compare.pdc_list = <<>>
                => call.compare.raised
          /\ call.compare.raised <=> exception = "ValueError"
    /\ GeneratedPdc /\ NoPdcInFile(widgets) =>
          /\ call.compare.called
          /\ call.compare.pdc_list = <<>>
          /\ exception = "ValueError"

C8_Witness ==
    /\ GeneratedPdc
    /\ NoPdcInFile(widgets)
    /\ call.compare.called
    /\ call.compare.rules # <<>>
    /\ call.compare.pdc_list = <<>>
    /\ session.pdc_list = <<>>
    /\ exception = "ValueError"

\* the action C9 describes: the first tagged verb, capitalized, when the
\* linguistic model is loaded and tags one, "Vérifier" otherwise
ExpectedAction(g) ==
    LET verbs == Verbs(g.rule, g.env.tags)
    IN  IF nlp_model /\ verbs # <<>> THEN Capitalize(verbs[1]) ELSE "Vérifier"

\* C9: every heuristic generate_pdc_from_rule call returns
\* "<Action> que <rule>" with the rule verbatim, Action being the
\* capitalized first verb the linguistic model tags in the rule, or
\* "Vérifier" when it tags none or no model is loaded.
C9_HeuristicAction ==
    call.op = "run" =>
        \A i \in 1..Len(call.generated) :
            LET g == call.generated[i]
            IN  ~g.use_ai =>
                    g.result.pdc = <<ExpectedAction(g), " ", "que", " ">> \o g.rule

\* the model is loaded and tags "peut" and "payer" in the rule, and the
\* heuristic call still answers with the default action and the message
\* that no model is loaded
C9_Failing ==
    /\ GeneratedPdc
    /\ nlp_model
    /\ \E i \in 1..Len(call.generated) :
          LET g == call.generated[i]
          IN  /\ ~g.use_ai
              /\ g.rule = FragPermission
              /\ Verbs(g.rule, g.env.tags) = <<"peut", "payer">>
              /\ g.result.pdc = DefaultPdc(FragPermission)
              /\ g.result.error = "Modèle NLP non chargé"

\* C10: in every reachable session state, a service-assisted
\* generate_pdc_from_rule call for which the service is reachable and
\* answers non-empty text calls the service and returns the trimmed
\* answer; the fallback "Vérifier que <rule>" is returned only when the
\* service is unreachable or the call fails.
C10_ServiceAnswerReturned ==
    call.op = "run" =>
        \A i \in 1..Len(call.generated) :
            LET g == call.generated[i]
            IN  g.use_ai =>
                  /\ g.env.client /\ g.env.ok /\ Strip(g.env.content) # <<>>
                        => /\ g.result.called
                           /\ g.result.pdc = Strip(g.env.content)
                  /\ g.result.pdc = DefaultPdc(g.rule)
                        => ~g.env.client \/ ~g.env.ok

\* the service is reachable and answers "Contrôler le paiement." but is not
\* called, and the fallback is returned
C10_Failing ==
    /\ GeneratedPdc
    /\ widgets.use_ai_pdc
    /\ "nlp" \notin DOMAIN session
    /\ \E i \in 1..Len(call.generated) :
          LET g == call.generated[i]
          IN  /\ g.use_ai /\ g.env.client /\ g.env.ok
              /\ Strip(g.env.content) = <<"Contrôler", " ", "le", " ", "paiement", ".">>
              /\ ~g.result.called
              /\ g.result.pdc = DefaultPdc(g.rule)

\* the last run compared the rules with existing control points and went on
Completed == GeneratedPdc /\ call.compare.called /\ ~call.compare.raised

\* the positions of the rules whose largest score is strictly below t
Below(similarity, t) ==
    {i \in 1..Len(similarity) : \A j \in 1..Len(similarity[i]) : similarity[i][j] < t}

\* the generation calls are for exactly the rules at positions I, in order
GeneratedFor(I) ==
    /\ Len(call.generated) = Cardinality(I)
    /\ \A k \in 1..Len(call.generated) :
          \E i \in I :
             /\ Cardinality({h \in I : h <= i}) = k
             /\ call.generated[k].rule = call.compare.rules[i]

\* C11: when control points are generated against an existing list, one
\* control point is generated and appended, in rule order, for exactly the
\* rules whose largest similarity is strictly below the threshold, and the
\* threshold is the value the user chose on the slider (0.6 by default).
C11_CoveredAtChosenThreshold ==
    Completed =>
        /\ call.chosen \in 1..One
        /\ GeneratedFor(Below(call.compare.similarity, call.chosen))
        /\ session.pdc_list = call.compare.pdc_list \o PdcTexts(call.generated)

\* the user chose 0.3; a rule whose best score is 0.5 is covered at that
\* threshold, yet a control point is generated for it
C11_Failing ==
    /\ Completed
    /\ call.chosen = 3
    /\ widgets.threshold = Threshold
    /\ \E i \in 1..Len(call.compare.rules) :
          /\ RowMax(call.compare.similarity[i]) = 5
          /\ \E k \in 1..Len(call.generated) :
                call.generated[k].rule = call.compare.rules[i]

\* the value held under key k, an absent key read as empty
Held(state, k) == IF k \in DOMAIN state THEN state[k] ELSE <<>>

\* the text the extraction of a run with widget values w produced
NewText(w) ==
    LET t == extract_text(w.uploaded_file)
    IN  IF Truthy(t) THEN t.text ELSE <<>>

\* the test cases the calls of run c produced for the control points of state
NewCases(state, w, c) ==
    [k \in 1..Len(c.cases) |->
        create_test_case(state.pdc_list[k], k, Oui(w), w.use_ai_tests, c.cases[k])]

\* key k holds after the step what it held before, or is absent as before
Same(k) ==
    /\ k \in DOMAIN session' <=> k \in DOMAIN session
    /\ k \in DOMAIN session => session'[k] = session[k]

\* C12: every re-run of a stage (text extraction, rule extraction,
\* control-point generation, test-case generation) leaves the stage's
\* session value equal to the new result alone, also when that result is
\* empty, with nothing kept from or appended to the previous value.
C12_ReplacedWholesale ==
    [][/\ call'.click = "Extraire le texte"
            => Held(session', "text") = NewText(widgets')
       /\ call'.extracted.called
            => Held(session', "rules") = call'.extracted.rules
       /\ call'.click = "Générer/Compléter les PDC" /\ exception' = None
            => Held(session', "pdc_list") = PdcTexts(call'.generated)
       /\ call'.click = "Générer les Cas de Test"
            => Held(session', "test_cases") = NewCases(session', widgets', call')
      ]_vars

\* C12, as the code has it: a non-empty text or rule list replaces the held
\* one and an empty result leaves it as it was; generated control points
\* replace the list under "Non" and follow the control points extracted
\* from the uploaded document under "Oui"; generated test cases replace
\* the list.
C12_ReplacedUnlessEmpty ==
    [][/\ call'.click = "Extraire le texte"
            => IF NewText(widgets') # <<>>
               THEN session'.text = NewText(widgets')
               ELSE Same("text")
       /\ call'.extracted.called
            => IF call'.extracted.rules # <<>>
               THEN session'.rules = call'.extracted.rules
               ELSE Same("rules")
       /\ call'.click = "Générer/Compléter les PDC" /\ exception' = None
            => session'.pdc_list =
                 (IF call'.compare.called THEN call'.compare.pdc_list ELSE <<>>)
                 \o PdcTexts(call'.generated)
       /\ call'.click = "Générer les Cas de Test"
            => session'.test_cases = NewCases(session', widgets', call')
      ]_vars

\* a second rule extraction returned nothing and the rules of the first
\* one are still held
C12_Witness ==
    /\ call.op = "run"
    /\ call.click = "Extraire les règles"
    /\ call.extracted.called
    /\ call.extracted.rules = <<>>
    /\ "rules" \in DOMAIN session
    /\ session.rules # <<>>

\* the step clicked "Extraire le texte" on a document that yields no text
FailedTextExtraction ==
    /\ call'.click = "Extraire le texte"
    /\ extract_text(widgets'.uploaded_file).none

\* the step uploaded a control-point document that yields no text
FailedPdcUpload ==
    /\ widgets'.pdc_file # widgets.pdc_file
    /\ widgets'.pdc_file # NoFile
    /\ extract_text(widgets'.pdc_file).none

\* text, rules and control points are what they were before the step
StagesUntouched == Same("text") /\ Same("rules") /\ Same("pdc_list")

\* C13: at both upload sites an extraction error (unsupported type, parse
\* failure, empty text) is reported to the user, raises no uncaught
\* exception and leaves the session's text, rules and control points as
\* they were.
C13_ExtractionErrorsContained ==
    [][/\ FailedTextExtraction
            => /\ extract_text_error(widgets'.uploaded_file) # None
               /\ widgets'.pdc_file = NoFile => exception' = None
               /\ StagesUntouched
       /\ FailedPdcUpload
            => /\ extract_text_error(widgets'.pdc_file) # None
               /\ exception' = None
               /\ StagesUntouched
      ]_vars

\* a TXT file uploaded as control-point document ended the run with an
\* uncaught TypeError
C13_Failing ==
    /\ widgets.pdc_file = File(Txt, TRUE, FragCheck)
    /\ extract_text_error(widgets.pdc_file) # None
    /\ call.click = None
    /\ exception = "TypeError"

\* C14: the position test i <= len(pdc_list) holds for every item, so all
\* test cases of one run carry the same Type: "Manuel" when the existing
\* control points option is selected, "Auto-généré" otherwise, also for
\* control points that were generated from rules.
C14_OneTypePerRun ==
    GeneratedTests =>
        \A k \in 1..Len(session.test_cases) :
            /\ k <= Len(session.pdc_list)
            /\ session.test_cases[k]["Type"] =
                 IF Oui(widgets) THEN "Manuel" ELSE "Auto-généré"

\* a control point generated from a rule gets a "Manuel" test case
C14_Witness ==
    /\ GeneratedTests
    /\ Oui(widgets)
    /\ \E k \in 1..Len(session.test_cases) :
          /\ session.test_cases[k]["PDC"] = DefaultPdc(FragPermission)
          /\ session.test_cases[k]["Type"] = "Manuel"

\* the step re-runs the page with the same control-point document uploaded
SameDocument ==
    /\ Oui(widgets) /\ Oui(widgets')
    /\ widgets.pdc_file # NoFile
    /\ widgets'.pdc_file = widgets.pdc_file

\* C15: with a control-point document uploaded, the control points that
\* "Générer/Compléter les PDC" generated for uncovered rules are still in
\* the session's list after the next interaction, whichever re-runs the
\* page, and get a test case when that interaction is "Générer les Cas de
\* Test"; the re-run does not reset the list to the extracted ones.
C15_GeneratedSurviveRerun ==
    [][Completed /\ SameDocument =>
          \A k \in 1..Len(call.generated) :
              /\ "pdc_list" \in DOMAIN session'
              /\ call.generated[k].result.pdc \in Range(session'.pdc_list)
              /\ call'.click = "Générer les Cas de Test" =>
                    \E j \in 1..Len(session'.test_cases) :
                        session'.test_cases[j]["PDC"] = call.generated[k].result.pdc
      ]_vars

=============================================================================
